---- MODULE Spec2Model ----
(***************************************************************************)
(* Model of the poline-rs interpolation engine (src/src/poline.rs,         *)
(* src/src/point.rs, src/src/fns.rs).                                      *)
(*                                                                         *)
(* Numbers.  The f64 values of the source are fixed-point integers in      *)
(* units of 1/One; hues are whole degrees.  An arithmetic expression of    *)
(* the source is evaluated exactly and rounded once (floor) to the unit.   *)
(* The trigonometric functions are exact on the hues the model feeds them  *)
(* (multiples of 90 degrees), and the anchors the model draws lie on one   *)
(* line through the centre (hue 0 or 180), so that every generated point   *)
(* lies on that line and atan2 / sqrt are exact as well.                   *)
(***************************************************************************)
EXTENDS Integers, Sequences, FiniteSets, TLC

VARIABLES
    phase,          \* "new": no engine yet; "built"; "panicked": a call aborted
    anchor_points,  \* Poline.anchor_points : Vec<ColorPoint>
    num_points,     \* Poline.num_points    : i32 (given value + 2)
    pos_fn_x,       \* Poline.pos_fn_x
    pos_fn_y,       \* Poline.pos_fn_y
    pos_fn_z,       \* Poline.pos_fn_z
    inverted,       \* Poline.inverted
    points,         \* Poline.points        : Vec<Vec<ColorPoint>>
    anchor_pairs,   \* Poline.anchor_pairs  : Vec<Vec<ColorPoint>>
    closed_loop,    \* Poline.closed_loop
    res,            \* the last call: its name and result
    calls           \* the number of calls made on the built engine

engine == <<anchor_points, num_points, pos_fn_x, pos_fn_y, pos_fn_z,
            inverted, points, anchor_pairs, closed_loop>>

vars == <<phase, anchor_points, num_points, pos_fn_x, pos_fn_y, pos_fn_z,
          inverted, points, anchor_pairs, closed_loop, res, calls>>

(***************************************************************************)
(* Bounds of the model.                                                    *)
(***************************************************************************)
MaxAnchors == 3
MaxNumPoints == 2
MaxCalls == 1

\* The fixed-point unit: 1.0 of the source is One.
One == 6 * 10

\* Option<T>
None == [tag |-> "None"]
Some(v) == [tag |-> "Some", v |-> v]
IsSome(opt) == opt.tag = "Some"

\* the `err` of a call that returned no error
NoErr == "none"

Abs(a) == IF a < 0 THEN -a ELSE a

\* a * b and a / b of two fixed-point values
Mul(a, b) == (a * b) \div One
Div(a, b) == (a * One) \div b

\* f64 `%`: the remainder has the sign of the dividend (fmod)
FRem(a, m) == IF a >= 0 THEN a % m ELSE -((-a) % m)

(***************************************************************************)
(* src/src/fns.rs : the easing curves                                      *)
(***************************************************************************)
\* sin(t * PI / 2) for t in [0, 1]: Bhaskara's rational form of the sine,
\* exact at t = 0 (0) and t = 1 (1)
SinQuarter(t) ==
    LET w == t * (2 * One - t)
    IN (4 * w * One) \div (5 * One * One - w)

linear_fn(t, inv) == t

quadratic_fn(t, inv) ==
    IF inv THEN One - Mul(One - t, One - t) ELSE Mul(t, t)

cubic_fn(t, inv) ==
    IF inv THEN One - ((One - t) * (One - t) * (One - t)) \div (One * One)
    ELSE (t * t * t) \div (One * One)

sinusoidal_fn(t, inv) ==
    IF inv THEN One - SinQuarter(One - t) ELSE SinQuarter(t)

smooth_step_fn(t, inv) ==
    (t * t * (3 * One - 2 * t)) \div (One * One)

\* PositionFn::get_fn followed by the call of the function pointer
PositionFn == {"Linear", "Quadratic", "Cubic", "Sinusoidal", "SmoothStep"}

get_fn(f, t, inv) ==
    CASE f = "Linear" -> linear_fn(t, inv)
      [] f = "Quadratic" -> quadratic_fn(t, inv)
      [] f = "Cubic" -> cubic_fn(t, inv)
      [] f = "Sinusoidal" -> sinusoidal_fn(t, inv)
      [] f = "SmoothStep" -> smooth_step_fn(t, inv)

(***************************************************************************)
(* src/src/point.rs : the point / colour model                             *)
(***************************************************************************)
cx == One \div 2
cy == One \div 2

\* cos and sin of a hue in degrees, as fixed-point values
CosDeg(h) ==
    CASE h % 360 = 0 -> One
      [] h % 360 = 90 -> 0
      [] h % 360 = 180 -> -One
      [] h % 360 = 270 -> 0

SinDeg(h) ==
    CASE h % 360 = 0 -> 0
      [] h % 360 = 90 -> One
      [] h % 360 = 180 -> 0
      [] h % 360 = 270 -> -One

\* y.atan2(x) in degrees, in (-180, 180]
Atan2Deg(dy, dx) ==
    CASE dy = 0 /\ dx >= 0 -> 0
      [] dy = 0 /\ dx < 0 -> 180
      [] dx = 0 /\ dy > 0 -> 90
      [] dx = 0 /\ dy < 0 -> -90

\* (dx^2 + dy^2).sqrt()
Hypot(dx, dy) ==
    IF dy = 0 THEN Abs(dx)
    ELSE IF dx = 0 THEN Abs(dy)
    ELSE CHOOSE r \in 0..(Abs(dx) + Abs(dy)) :
            r * r <= dx * dx + dy * dy /\ (r + 1) * (r + 1) > dx * dx + dy * dy

\* impl From<(Hsl, bool)> for Point3
Point3FromHsl(hsl, inv) ==
    LET dist == Mul(IF inv THEN One - hsl.l ELSE hsl.l, cx)
    IN [x |-> cx + Mul(dist, CosDeg(hsl.h)),
        y |-> cy + Mul(dist, SinDeg(hsl.h)),
        z |-> hsl.s]

\* impl From<(Point3, bool)> for Hsl
HslFromPoint3(p, inv) ==
    LET deg == FRem(360 + Atan2Deg(p.y - cy, p.x - cx), 360)
        dist == Hypot(p.x - cx, p.y - cy)
        l == Div(dist, cx)
    IN [h |-> deg, s |-> p.z, l |-> IF inv THEN One - l ELSE l]

\* impl From<(Hsl, bool)> for ColorPoint
ColorPointFromHsl(hsl, inv) ==
    [color |-> hsl, point |-> Point3FromHsl(hsl, inv), inverted |-> inv]

\* impl From<(Point3, bool)> for ColorPoint
ColorPointFromPoint3(p, inv) ==
    [color |-> HslFromPoint3(p, inv), point |-> p, inverted |-> inv]

\* ColorPoint::set_inverted
cp_set_inverted(cp, inv) == [cp EXCEPT !.inverted = inv]

\* ColorPoint::set_postion
cp_set_postion(cp, p) ==
    [cp EXCEPT !.color = HslFromPoint3(p, cp.inverted), !.point = p]

\* ColorPoint::set_hsl
cp_set_hsl(cp, hsl) ==
    [cp EXCEPT !.color = hsl, !.point = Point3FromHsl(hsl, cp.inverted)]

\* ColorPoint::shift_hue
cp_shift_hue(cp, angle) ==
    LET c == [cp.color EXCEPT !.h = FRem(360 + (cp.color.h + angle), 360)]
    IN [cp EXCEPT !.color = c, !.point = Point3FromHsl(c, cp.inverted)]

\* ColorPoint::css_string: the three numbers the format string prints
css_string(cp) == <<"hsl", cp.color.h, cp.color.s * 100, cp.color.l * 100>>

\* vector_on_line
vector_on_line(t, p1, p2, inv, fx, fy, fz) ==
    LET tx == get_fn(fx, t, inv)
        ty == get_fn(fy, t, inv)
        tz == get_fn(fz, t, inv)
    IN [x |-> ((One - tx) * p1.x + tx * p2.x) \div One,
        y |-> ((One - ty) * p1.y + ty * p2.y) \div One,
        z |-> ((One - tz) * p1.z + tz * p2.z) \div One]

\* vectors_on_line: (0..num_points), empty when num_points <= 0
vectors_on_line(p1, p2, n, inv, fx, fy, fz) ==
    [k \in 1..n |->
        vector_on_line(((k - 1) * One) \div (n - 1), p1, p2, inv, fx, fy, fz)]

\* distance with `hue_mode.unwrap_or(true)`: the circular hue difference
\* taken by default
distance_circular_default(a, b, hue_mode, first_is_hue) ==
    LET m == Abs(a[1] - b[1])
        d1 == IF first_is_hue /\ (~IsSome(hue_mode) \/ hue_mode.v)
              THEN ((IF m < 360 - m THEN m ELSE 360 - m) * One) \div 360
              ELSE (a[1] - b[1]) * (IF first_is_hue THEN One ELSE 1)
        d2 == b[2] - a[2]
        d3 == b[3] - a[3]
    IN d1 * d1 + d2 * d2 + d3 * d3

\* PartialPoint3::distance with hue_mode None, on (h, s, l) or (x, y, z)
\* triples; the model keeps the square of the result, in units of 1/One^2,
\* `first_is_hue` tells that the first coordinate is in whole degrees
distance(a, b, hue_mode, first_is_hue) ==
    LET u == IF first_is_hue THEN One ELSE 1
        d1 == IF IsSome(hue_mode) /\ hue_mode.v
              THEN LET m == Abs(a[1] - b[1])
                   IN ((IF m < 360 - m THEN m ELSE 360 - m) * One) \div 360
              ELSE (a[1] - b[1]) * u
        d2 == b[2] - a[2]
        d3 == b[3] - a[3]
    IN d1 * d1 + d2 * d2 + d3 * d3

(***************************************************************************)
(* src/src/poline.rs : the engine                                          *)
(***************************************************************************)
\* Vec::insert(index, e) for index <= len, Vec::remove(index) for index < len
\* (0-based indices)
VecInsert(v, index, e) ==
    SubSeq(v, 1, index) \o <<e>> \o SubSeq(v, index + 1, Len(v))

VecRemove(v, index) ==
    SubSeq(v, 1, index) \o SubSeq(v, index + 2, Len(v))

\* update_anchor_pairs aborts when `self.anchor_points.len() - 1` underflows:
\* a debug build panics at the subtraction, a release build wraps to
\* usize::MAX and panics at `self.anchor_points[0]`
update_panics(ap, cl) == ~cl /\ Len(ap) = 0

\* update_anchor_pairs, first half: the pairs
make_anchor_pairs(ap, cl) ==
    LET anchor_points_length == IF cl THEN Len(ap) ELSE Len(ap) - 1
    IN [i \in 1..anchor_points_length |->
            <<ap[i], ap[(i % Len(ap)) + 1]>>]

\* update_anchor_pairs, second half: the points of every pair
\* (i below is the 1-based index of the pair, the source's i is i - 1)
make_points(pairs, np, fx, fy, fz, inv) ==
    [i \in 1..Len(pairs) |->
        LET p1 == pairs[i][1].point
            p2 == pairs[i][2].point
            line == vectors_on_line(p1, p2, np, ((i - 1) % 2) = 0, fx, fy, fz)
        IN [k \in 1..Len(line) |-> ColorPointFromPoint3(line[k], inv)]]

Result(op, kind, err, val) ==
    [op |-> op, kind |-> kind, err |-> err, val |-> val]

\* The end of a mutator that calls update_anchor_pairs: the fields it has
\* assigned, then the rebuild (or the abort inside it).
Rebuild(op, ap, np, fx, fy, fz, inv, cl, val) ==
    /\ anchor_points' = ap
    /\ num_points' = np
    /\ pos_fn_x' = fx
    /\ pos_fn_y' = fy
    /\ pos_fn_z' = fz
    /\ inverted' = inv
    /\ closed_loop' = cl
    /\ IF update_panics(ap, cl)
       THEN /\ phase' = "panicked"
            /\ UNCHANGED <<points, anchor_pairs>>
            /\ res' = Result(op, "Panic", NoErr, None)
       ELSE /\ phase' = "built"
            /\ anchor_pairs' = make_anchor_pairs(ap, cl)
            /\ points' = make_points(make_anchor_pairs(ap, cl), np, fx, fy, fz, inv)
            /\ res' = Result(op, "Ok", NoErr, val)

(***************************************************************************)
(* The arguments the calls are made with.                                  *)
(***************************************************************************)
Hsl(h, s, l) == [h |-> h, s |-> s, l |-> l]

ColorA == Hsl(0, One, One)
ColorB == Hsl(180, One, One)
ColorC == Hsl(0, One \div 2, One \div 3)

Colors == {ColorA, ColorB}

ColorPointArgs == {ColorPointFromHsl(ColorA, FALSE), ColorPointFromHsl(ColorB, TRUE)}

SeqsUpTo(S, n) == UNION {[1..m -> S] : m \in 0..n}

BuilderFns == {<<None, None, None>>, <<Some("Linear"), Some("Quadratic"), None>>}
FnArgs == {<<"Linear", "Cubic", "SmoothStep">>,
           <<"Sinusoidal", "Sinusoidal", "Sinusoidal">>}
ShiftArgs == {Some(180), Some(-540)}
\* the values PolineBuilder::num_points is given (an i32, never checked): a
\* negative one, and the counts from 0 up.  (-1 is left out: it makes
\* num_points 1 and t = 0.0 / 0.0, a NaN the fixed-point numbers lack.)
BuildNumArgs == {-3} \cup 0..MaxNumPoints
PointOrHslArgs ==
    {[kind |-> "Hsl", v |-> ColorC],
     [kind |-> "Point", v |-> Point3FromHsl(ColorC, TRUE)]}
QueryArgs ==
    {[kind |-> "Hsl", v |-> Hsl(170, One, One)],
     [kind |-> "Hsl", v |-> Hsl(350, One, One)],
     [kind |-> "Point", v |-> Point3FromHsl(ColorC, FALSE)]}

unwrap_or(opt, default) == IF IsSome(opt) THEN opt.v ELSE default

(***************************************************************************)
(* The operations.                                                         *)
(***************************************************************************)
\* a call of a `&mut self` method of the engine `build` returned
Call ==
    /\ phase = "built"
    /\ calls < MaxCalls
    /\ calls' = calls + 1

Init ==
    /\ phase = "new"
    /\ anchor_points = <<>>
    /\ num_points = 0
    /\ pos_fn_x = "Sinusoidal"
    /\ pos_fn_y = "Sinusoidal"
    /\ pos_fn_z = "Sinusoidal"
    /\ inverted = FALSE
    /\ points = <<>>
    /\ anchor_pairs = <<>>
    /\ closed_loop = FALSE
    /\ res = Result("none", "Ok", NoErr, None)
    /\ calls = 0

\* PolineBuilder::build, on a builder holding the given settings
build(anchor_colors, n, fns, cl, inv) ==
    /\ phase = "new"
    /\ UNCHANGED calls
    /\ IF Len(anchor_colors) < 2
       THEN /\ res' = Result("build", "Err", "InvalidAnchorColorCount", None)
            /\ UNCHANGED <<phase, engine>>
       ELSE Rebuild("build",
                    [i \in 1..Len(anchor_colors) |->
                        ColorPointFromHsl(anchor_colors[i], inv)],
                    n + 2,
                    unwrap_or(fns[1], "Sinusoidal"),
                    unwrap_or(fns[2], "Sinusoidal"),
                    unwrap_or(fns[3], "Sinusoidal"),
                    inv, cl, None)

\* set_num_points with the assignment made before the check of `num`
set_num_points_assign_first(num) ==
    /\ Call
    /\ IF num < 1
       THEN /\ res' = Result("set_num_points", "Err", "InvalidAnchorColorCount", None)
            /\ num_points' = num + 2
            /\ UNCHANGED <<phase, anchor_points, pos_fn_x, pos_fn_y, pos_fn_z,
                           inverted, points, anchor_pairs, closed_loop>>
       ELSE Rebuild("set_num_points", anchor_points, num + 2,
                    pos_fn_x, pos_fn_y, pos_fn_z, inverted, closed_loop, None)

\* Poline::set_num_points
set_num_points(num) ==
    /\ Call
    /\ IF num < 1
       THEN /\ res' = Result("set_num_points", "Err", "InvalidAnchorColorCount", None)
            /\ UNCHANGED <<phase, engine>>
       ELSE Rebuild("set_num_points", anchor_points, num + 2,
                    pos_fn_x, pos_fn_y, pos_fn_z, inverted, closed_loop, None)

\* Poline::set_position_fn
set_position_fn(fns) ==
    /\ Call
    /\ Rebuild("set_position_fn", anchor_points, num_points,
               fns[1], fns[2], fns[3], inverted, closed_loop, None)

\* Poline::set_anchor_points
set_anchor_points(pts) ==
    /\ Call
    /\ Rebuild("set_anchor_points", pts, num_points,
               pos_fn_x, pos_fn_y, pos_fn_z, inverted, closed_loop, None)

\* Poline::add_anchor_point; Vec::insert aborts when index > len
add_anchor_point(color_point, at_index) ==
    /\ Call
    /\ Len(anchor_points) < MaxAnchors
    /\ LET point == cp_set_inverted(color_point, inverted)
       IN IF IsSome(at_index) /\ at_index.v > Len(anchor_points)
          THEN /\ phase' = "panicked"
               /\ res' = Result("add_anchor_point", "Panic", NoErr, None)
               /\ UNCHANGED engine
          ELSE Rebuild("add_anchor_point",
                       IF IsSome(at_index)
                       THEN VecInsert(anchor_points, at_index.v, point)
                       ELSE Append(anchor_points, point),
                       num_points, pos_fn_x, pos_fn_y, pos_fn_z,
                       inverted, closed_loop, Some(point))

\* Poline::remove_anchor_point
remove_anchor_point(index) ==
    /\ Call
    /\ IF index >= Len(anchor_points)
       THEN /\ res' = Result("remove_anchor_point", "Err", "PointIndexOutOfBounds", None)
            /\ UNCHANGED <<phase, engine>>
       ELSE /\ anchor_points' = VecRemove(anchor_points, index)
            /\ res' = Result("remove_anchor_point", "Ok", NoErr,
                             Some(anchor_points[index + 1]))
            /\ UNCHANGED <<phase, num_points, pos_fn_x, pos_fn_y, pos_fn_z,
                           inverted, points, anchor_pairs, closed_loop>>

\* Poline::update_anchor_point
update_anchor_point(index, update) ==
    /\ Call
    /\ IF index >= Len(anchor_points)
       THEN /\ res' = Result("update_anchor_point", "Err", "PointIndexOutOfBounds", None)
            /\ UNCHANGED <<phase, engine>>
       ELSE LET removed == anchor_points[index + 1]
                out == IF update.kind = "Point"
                       THEN cp_set_postion(removed, update.v)
                       ELSE cp_set_hsl(removed, update.v)
            IN /\ anchor_points' =
                    VecInsert(VecRemove(anchor_points, index), index, out)
               /\ res' = Result("update_anchor_point", "Ok", NoErr, Some(out))
               /\ UNCHANGED <<phase, num_points, pos_fn_x, pos_fn_y, pos_fn_z,
                              inverted, points, anchor_pairs, closed_loop>>

\* Poline::set_closed_loop
set_closed_loop(cl) ==
    /\ Call
    /\ Rebuild("set_closed_loop", anchor_points, num_points,
               pos_fn_x, pos_fn_y, pos_fn_z, inverted, cl, None)

\* Poline::set_inverted
set_inverted(inv) ==
    /\ Call
    /\ Rebuild("set_inverted", anchor_points, num_points,
               pos_fn_x, pos_fn_y, pos_fn_z, inv, closed_loop, None)

\* Poline::shift_hue
shift_hue(h_shift) ==
    /\ Call
    /\ LET val == unwrap_or(h_shift, 20)
       IN Rebuild("shift_hue",
                  [i \in 1..Len(anchor_points) |->
                        cp_shift_hue(anchor_points[i], val)],
                  num_points, pos_fn_x, pos_fn_y, pos_fn_z,
                  inverted, closed_loop, None)

\* the coordinates PartialPoint3::from takes of an Hsl or a Point3
PartialOfHsl(c) == <<c.h, c.s, c.l>>
PartialOfPoint3(p) == <<p.x, p.y, p.z>>

\* Poline::get_closest_anchor_point (&self, a read): the distances, the
\* first least one (Iterator::min_by keeps the first of equal minima), the
\* anchor there
closest_distances(ap, q) ==
    [i \in 1..Len(ap) |->
        IF q.kind = "Point"
        THEN distance(PartialOfPoint3(ap[i].point), PartialOfPoint3(q.v), None, FALSE)
        ELSE distance(PartialOfHsl(ap[i].color), PartialOfHsl(q.v), None, TRUE)]

closest_value(ap, q) ==
    LET distances == closest_distances(ap, q)
    IN IF Len(ap) = 0 THEN None
       ELSE LET m == CHOOSE i \in 1..Len(ap) :
                        /\ \A j \in 1..Len(ap) : distances[i] <= distances[j]
                        /\ \A j \in 1..(i - 1) : distances[j] > distances[i]
            IN Some([anchor |-> ap[m], dist2 |-> distances[m]])

get_closest_anchor_point(point_or_hsl) ==
    closest_value(anchor_points, point_or_hsl)

\* Iterator::flatten of the segments
flatten(pp) ==
    LET F[i \in 0..Len(pp)] == IF i = 0 THEN <<>> ELSE F[i - 1] \o pp[i]
    IN F[Len(pp)]

\* flattened_points without the filter of the junction duplicates
flattened_points_keep_junctions == flatten(points)

\* Poline::flattened_points: enumerate().filter_map over the flattened
\* segments (i below is the 1-based position, the source's i is i - 1)
flattened_points ==
    LET flat == flatten(points)
        F[i \in 0..Len(flat)] ==
            IF i = 0 THEN <<>>
            ELSE IF (i - 1) = 0 \/ (i - 1) % num_points # 0
                 THEN Append(F[i - 1], flat[i])
                 ELSE F[i - 1]
    IN F[Len(flat)]

\* MaybeLast::next: an element is yielded while another one follows it
MaybeLast(iter, dont_take_last) ==
    IF dont_take_last /\ Len(iter) > 0
    THEN SubSeq(iter, 1, Len(iter) - 1)
    ELSE iter

\* Poline::colors
colors ==
    MaybeLast([i \in 1..Len(flattened_points) |-> flattened_points[i].color],
              closed_loop)

\* Poline::colors_css
colors_css ==
    MaybeLast([i \in 1..Len(flattened_points) |-> css_string(flattened_points[i])],
              closed_loop)

Next ==
    \/ \E a \in SeqsUpTo(Colors, MaxAnchors), n \in BuildNumArgs,
          f \in BuilderFns, cl \in BOOLEAN, inv \in BOOLEAN :
            build(a, n, f, cl, inv)
    \/ \E num \in 0..MaxNumPoints : set_num_points(num)
    \/ \E f \in FnArgs : set_position_fn(f)
    \/ \E pts \in SeqsUpTo(ColorPointArgs, MaxAnchors) : set_anchor_points(pts)
    \/ \E c \in ColorPointArgs, at \in {None} \cup {Some(i) : i \in 0..(MaxAnchors + 1)} :
            add_anchor_point(c, at)
    \/ \E i \in 0..MaxAnchors : remove_anchor_point(i)
    \/ \E i \in 0..MaxAnchors, u \in PointOrHslArgs : update_anchor_point(i, u)
    \/ \E cl \in BOOLEAN : set_closed_loop(cl)
    \/ \E inv \in BOOLEAN : set_inverted(inv)
    \/ \E d \in ShiftArgs : shift_hue(d)

Spec == Init /\ [][Next]_vars

(***************************************************************************)
(* The claims.                                                             *)
(***************************************************************************)
\* the calls that end in update_anchor_pairs
RebuildingOps ==
    {"build", "set_num_points", "set_position_fn", "set_anchor_points",
     "add_anchor_point", "set_closed_loop", "set_inverted", "shift_hue"}

\* the last call returned Ok and rebuilt the derived state
JustRebuilt == phase = "built" /\ res.kind = "Ok" /\ res.op \in RebuildingOps

\* C1: in every state of a built engine the cached anchor_pairs and points
\* are what update_anchor_pairs computes from the current anchors,
\* num_points, easing functions, closed_loop and inverted.
C1_CachesNeverStale ==
    (phase = "built" /\ ~update_panics(anchor_points, closed_loop)) =>
        /\ anchor_pairs = make_anchor_pairs(anchor_points, closed_loop)
        /\ points = make_points(make_anchor_pairs(anchor_points, closed_loop),
                                num_points, pos_fn_x, pos_fn_y, pos_fn_z, inverted)

\* C2: a built engine always holds at least 2 anchors.
C2_AtLeastTwoAnchors ==
    phase = "built" => Len(anchor_points) >= 2

\* C3: no call aborts: every call completes or returns an Err.
C3_NoCallPanics ==
    res.kind # "Panic" /\ phase # "panicked"

\* C4: a call of set_num_points, remove_anchor_point or update_anchor_point
\* that returns an Err leaves every field of the engine as it was.
C4_FailedMutationChangesNothing ==
    [][(res'.kind = "Err" /\ res'.op \in {"set_num_points", "remove_anchor_point",
                                         "update_anchor_point"})
        => UNCHANGED engine]_vars

\* C4 witness: set_num_points has just returned an Err on a built engine whose
\* derived state is in place.
C4_Witness ==
    /\ phase = "built"
    /\ res.op = "set_num_points"
    /\ res.kind = "Err"
    /\ Len(anchor_points) >= 2
    /\ Len(points) >= 1

\* C5: the error set_num_points returns for a non-positive request is a kind
\* of its own: it is neither the kind build returns for fewer than 2 anchors
\* (InvalidAnchorColorCount) nor the kind of a bad index.
C5_PointsPerSegmentErrorIsItsOwnKind ==
    (res.op = "set_num_points" /\ res.kind = "Err") =>
        res.err \notin {"InvalidAnchorColorCount", "PointIndexOutOfBounds"}

\* C6 as stated: right after a rebuild of an open engine with k >= 2 anchors,
\* with N the value given to the builder or to set_num_points (what
\* Poline::num_points() returns), the flattened sequence has
\* (k-1)*N - (k-2) elements and anchor j is the element at index j*(N-1)
\* (taken for N >= 2, where N can count both endpoints).
C6_AsStated ==
    (JustRebuilt /\ ~closed_loop /\ Len(anchor_points) >= 2 /\ num_points - 2 >= 2) =>
        LET k == Len(anchor_points)
            N == num_points - 2
        IN /\ Len(flattened_points) = (k - 1) * N - (k - 2)
           /\ \A j \in 0..(k - 1) :
                /\ j * (N - 1) + 1 \in DOMAIN flattened_points
                /\ flattened_points[j * (N - 1) + 1] = anchor_points[j + 1]

\* C6 amended: right after a rebuild of an open engine with k >= 2 anchors,
\* with N the given value plus 2 (the engine's num_points, the count that
\* includes both endpoints), the flattened sequence has (k-1)*N - (k-2)
\* elements and the element at index j*(N-1) is anchor j's Cartesian point,
\* converted to a ColorPoint under the engine's inverted flag.
C6_FlattenedOpen ==
    (JustRebuilt /\ ~closed_loop /\ Len(anchor_points) >= 2 /\ num_points >= 2) =>
        LET k == Len(anchor_points)
            N == num_points
        IN /\ Len(flattened_points) = (k - 1) * N - (k - 2)
           /\ \A j \in 0..(k - 1) :
                /\ j * (N - 1) + 1 \in DOMAIN flattened_points
                /\ flattened_points[j * (N - 1) + 1] =
                        ColorPointFromPoint3(anchor_points[j + 1].point, inverted)

\* C6 witness: an open engine just built from 3 anchors with 2 given (4 per
\* segment): 7 elements, the anchors' points at indices 0, 3 and 6.
C6_Witness ==
    /\ JustRebuilt
    /\ res.op = "build"
    /\ ~closed_loop
    /\ Len(anchor_points) = 3
    /\ num_points = 4
    /\ Len(flattened_points) = 7
    /\ \A j \in 0..2 : flattened_points[3 * j + 1].point = anchor_points[j + 1].point

\* C7: right after a rebuild of a closed engine with k >= 2 anchors and N
\* points per segment, the three accessors yield the same number of
\* elements, k*N - (k-1) - 1: the closing duplicate of the first anchor is
\* dropped from flattened_points as it is from colors and colors_css.
C7_ClosedDropsLastEverywhere ==
    (JustRebuilt /\ closed_loop /\ Len(anchor_points) >= 2) =>
        LET k == Len(anchor_points)
            N == num_points
        IN /\ Len(flattened_points) = Len(colors)
           /\ Len(colors_css) = Len(colors)
           /\ Len(flattened_points) = k * N - (k - 1) - 1

\* the point of a ColorPoint is the conversion of its color under its flag
SelfConsistent(cp) == cp.point = Point3FromHsl(cp.color, cp.inverted)

\* C8: every ColorPoint the engine holds (anchor or generated point) is
\* self-consistent.
C8_ColorPointsSelfConsistent ==
    phase = "built" =>
        /\ \A i \in DOMAIN anchor_points : SelfConsistent(anchor_points[i])
        /\ \A i \in DOMAIN points :
                \A k \in DOMAIN points[i] : SelfConsistent(points[i][k])

\* the square of the plain Euclidean distance of anchor `a` from the query,
\* in the query's own representation (hue differences in whole degrees)
EuclidSq(a, q) ==
    IF q.kind = "Point"
    THEN (a.point.x - q.v.x) * (a.point.x - q.v.x)
         + (a.point.y - q.v.y) * (a.point.y - q.v.y)
         + (a.point.z - q.v.z) * (a.point.z - q.v.z)
    ELSE ((a.color.h - q.v.h) * One) * ((a.color.h - q.v.h) * One)
         + (a.color.s - q.v.s) * (a.color.s - q.v.s)
         + (a.color.l - q.v.l) * (a.color.l - q.v.l)

\* C9: get_closest_anchor_point returns None exactly when there is no anchor;
\* otherwise it returns an anchor and its plain (non-circular) Euclidean
\* distance from the query, and no anchor is nearer; with anchors of hue 0
\* and 180 (same s and l as the query) and query hue 170 it is the anchor of
\* hue 180.
C9_ClosestAnchor ==
    phase = "built" =>
        \A q \in QueryArgs :
            LET r == get_closest_anchor_point(q)
            IN /\ IsSome(r) <=> Len(anchor_points) > 0
               /\ IsSome(r) =>
                    /\ \E i \in DOMAIN anchor_points : anchor_points[i] = r.v.anchor
                    /\ r.v.dist2 = EuclidSq(r.v.anchor, q)
                    /\ \A j \in DOMAIN anchor_points :
                            EuclidSq(anchor_points[j], q) >= r.v.dist2
               /\ ( /\ q = [kind |-> "Hsl", v |-> Hsl(170, One, One)]
                    /\ Len(anchor_points) = 2
                    /\ anchor_points[1].color = ColorA
                    /\ anchor_points[2].color = ColorB )
                    => r.v.anchor.color.h = 180

\* C9 witness: anchors of hue 0 and 180, the query of hue 170 answered with
\* the anchor of hue 180, at 10 degrees.
C9_Witness ==
    /\ phase = "built"
    /\ Len(anchor_points) = 2
    /\ anchor_points[1].color = ColorA
    /\ anchor_points[2].color = ColorB
    /\ LET r == get_closest_anchor_point([kind |-> "Hsl", v |-> Hsl(170, One, One)])
       IN IsSome(r) /\ r.v.anchor = anchor_points[2]
            /\ r.v.dist2 = (10 * One) * (10 * One)

\* the offsets shift_hue is called with
ShiftVals == {unwrap_or(a, 20) : a \in ShiftArgs}

\* C10: shift_hue on anchors whose hues are in [0, 360) leaves every hue at
\* (h + d) mod 360, in [0, 360), for the offset d it was called with.
C10_ShiftHueIsAdditionMod360 ==
    [][(/\ res'.op = "shift_hue"
        /\ res'.kind = "Ok"
        /\ \A i \in DOMAIN anchor_points : anchor_points[i].color.h \in 0..359)
        => \E d \in ShiftVals :
            /\ Len(anchor_points') = Len(anchor_points)
            /\ \A i \in DOMAIN anchor_points :
                /\ anchor_points'[i].color.h = (anchor_points[i].color.h + d) % 360
                /\ anchor_points'[i].color.h \in 0..359]_vars

\* C11: right after a rebuild on an engine with count anchors, anchor_pairs
\* has count entries when closed_loop and count - 1 otherwise, pair i is
\* (anchor[i], anchor[(i+1) mod count]), and points has one segment per pair,
\* each of exactly num_points points, point k of segment i being the point
\* at t = k / (num_points - 1) of the line between the pair's Cartesian
\* points, eased with the flag (i is even) and converted to a ColorPoint
\* with the engine's inverted flag.
C11_RebuildShape ==
    JustRebuilt =>
        LET count == Len(anchor_points)
            length == IF closed_loop THEN count ELSE count - 1
        IN /\ Len(anchor_pairs) = length
           /\ \A i \in 0..(length - 1) :
                anchor_pairs[i + 1] =
                    <<anchor_points[i + 1], anchor_points[((i + 1) % count) + 1]>>
           /\ Len(points) = Len(anchor_pairs)
           /\ \A i \in 0..(Len(points) - 1) :
                /\ Len(points[i + 1]) = num_points
                /\ \A k \in 0..(Len(points[i + 1]) - 1) :
                    points[i + 1][k + 1] =
                        ColorPointFromPoint3(
                            vector_on_line((k * One) \div (num_points - 1),
                                           anchor_points[i + 1].point,
                                           anchor_points[((i + 1) % count) + 1].point,
                                           i % 2 = 0,
                                           pos_fn_x, pos_fn_y, pos_fn_z),
                            inverted)

====
